---- MODULE Spec2Model ----
(***************************************************************************)
(* Model of src/connection_manager.py: the poll loop of main(), the        *)
(* reachability pre-check, the latency measurement and classifier, the     *)
(* policy applied by adjust_transmission_settings and the RPC gateway      *)
(* transmission_rpc_call.                                                  *)
(*                                                                         *)
(* The loop is sequential.  One iteration is split at the points where the *)
(* program waits for the outside world: the pre-check pings, the           *)
(* measurement pings, the RPC calls of adjust_transmission_settings, the   *)
(* torrent-get call, the sleep.  What the outside world answers is an      *)
(* input of the action, drawn with \E.                                     *)
(*                                                                         *)
(* requests: response.json() on a body that is not JSON raises             *)
(* requests.exceptions.JSONDecodeError, a RequestException, so line 78     *)
(* catches it and transmission_rpc_call returns None.                      *)
(***************************************************************************)
EXTENDS Integers, Sequences, FiniteSets, TLC

VARIABLES
    network_state,   \* the module-level dict of lines 34-40
    pc,              \* position of main() in the loop body
    prev_quality,    \* network_state["connection_quality"] when the cycle began
    cycle_quality,   \* main's local of line 263, or the literal of line 289;
                     \* "none" until the cycle has classified the link
    precheck,        \* result of check_network_connectivity this cycle
    measured,        \* TRUE when measure_connection_quality was called this cycle
    caught,          \* TRUE when the except clause of line 291 ran this cycle
    calls,           \* the transmission_rpc_call invocations of this cycle, in order
    report,          \* the counts logged at line 278 this cycle
    offline_run,     \* number of consecutive classified cycles whose tier was offline
    measurement      \* the measurement pings of this cycle, where the
                     \* specification fixes them beforehand; <<>> otherwise

vars == <<network_state, pc, prev_quality, cycle_quality, precheck, measured,
          caught, calls, report, offline_run, measurement>>

-----------------------------------------------------------------------------
(* Bounds *)

MaxReconnect == 3   \* longest run of consecutive offline cycles explored
MaxAge == 1         \* last_online is kept as an age in cycles, saturating here
MaxTorrents == 1    \* longest torrent list a torrent-get answer carries

-----------------------------------------------------------------------------
(* Configuration, lines 24-31 *)

PING_HOSTS == <<"1.1.1.1", "8.8.8.8">>

Tiers == {"good", "poor", "very_poor", "offline"}

\* Latency values (ms) a parsed ping summary can carry.
Latencies == {100, 199, 200, 201, 499, 500, 501}

-----------------------------------------------------------------------------
(* get_transmission_session_id and transmission_rpc_call, lines 42-81 *)

\* What the GET of line 45 meets: "sid" a 409 carrying the header, "nosid" any
\* other answer (no header, or a status that is not 409), "error" a
\* RequestException.
GetOutcomes == {"sid", "nosid", "error"}

\* What the POST of line 66 meets:
\*   "ok"        200 with a JSON body
\*   "malformed" 200 with a body that is not JSON
\*   "challenge" 409: the session id is no longer valid
\*   "status"    any other status (401, 500, ...)
\*   "refused"   RequestException, the request never reached the client
\*   "lost"      RequestException after the client executed the request
PostOutcomes == {"ok", "malformed", "challenge", "status", "refused", "lost"}

RpcEnv == [get : GetOutcomes, post : PostOutcomes]

get_transmission_session_id(g) == IF g = "sid" THEN "sid" ELSE ""

\* Mutation: the request is sent although no session id was obtained.
rpc_call_without_session_check(method, arguments, env) ==
    LET session_id == get_transmission_session_id(env.get) IN
    IF session_id = ""
    THEN [method |-> method, arguments |-> arguments, posts |-> 1,
          effects |-> 0, status |-> "none", ret |-> "None"]
    ELSE [method |-> method, arguments |-> arguments, posts |-> 1,
          effects |-> IF env.post \in {"ok", "malformed", "lost"} THEN 1 ELSE 0,
          status |-> CASE env.post \in {"ok", "malformed"} -> "200"
                       [] env.post = "challenge" -> "409"
                       [] env.post = "status" -> "other"
                       [] OTHER -> "exception",
          ret |-> IF env.post = "ok" THEN "json" ELSE "None"]

\* One invocation, as a record: the POSTs sent, the requests the client
\* executed, the status seen by line 74 and the value returned.
transmission_rpc_call(method, arguments, env) ==
    LET session_id == get_transmission_session_id(env.get) IN
    IF session_id = ""
    THEN [method |-> method, arguments |-> arguments, posts |-> 0,
          effects |-> 0, status |-> "none", ret |-> "None"]
    ELSE [method |-> method, arguments |-> arguments, posts |-> 1,
          effects |-> IF env.post \in {"ok", "malformed", "lost"} THEN 1 ELSE 0,
          status |-> CASE env.post \in {"ok", "malformed"} -> "200"
                       [] env.post = "challenge" -> "409"
                       [] env.post = "status" -> "other"
                       [] OTHER -> "exception",
          ret |-> IF env.post = "ok" THEN "json" ELSE "None"]

-----------------------------------------------------------------------------
(* check_network_connectivity, lines 83-100 *)

\* Outcome of one subprocess.run of ping: exit status 0, another exit status,
\* a SubprocessError/TimeoutExpired, or any other exception (OSError when the
\* ping binary cannot be run).
PingOutcomes == {"zero", "nonzero", "timeout", "raise"}

RECURSIVE check_from(_, _)
check_from(pre, i) ==
    IF i > Len(PING_HOSTS) THEN "False"
    ELSE CASE pre[i] = "zero" -> "True"
           [] pre[i] = "raise" -> "raise"
           [] OTHER -> check_from(pre, i + 1)

check_network_connectivity(pre) == check_from(pre, 1)

-----------------------------------------------------------------------------
(* measure_connection_quality, lines 102-167 *)

FALLBACK_MS == 1000

\* The text a ping that exited 0 printed, reduced to what lines 124-145 look at:
\*   fmt    which marker the output holds: "min/avg/max", else "Average", else none
\*   sep    "min/avg/max": a "/" follows the marker (line 127);
\*          "Average": the text "Average =" is present (line 133)
\*   num    the extracted field is accepted by float()
\*   times  "min/avg/max", "Average": the value of the field when num;
\*          no marker: the values the regular expression of line 139 finds
\* Raw lists are those whose mean is a whole number of milliseconds.
RawTimes ==
    {<<>>} \cup {<<v>> : v \in Latencies}
           \cup {<<v, w>> : v \in {199, 201}, w \in {199, 201}}

PingOutputs ==
    {[fmt |-> f, sep |-> TRUE, num |-> TRUE, times |-> <<v>>] :
        f \in {"min/avg/max", "Average"}, v \in Latencies}
    \cup {[fmt |-> f, sep |-> b, num |-> FALSE, times |-> <<>>] :
        f \in {"min/avg/max", "Average"}, b \in BOOLEAN}
    \cup {[fmt |-> "none", sep |-> FALSE, num |-> FALSE, times |-> t] :
        t \in RawTimes}

\* One measurement ping: how subprocess.run ended and, on exit 0, its output.
NoOutput == [fmt |-> "none", sep |-> FALSE, num |-> FALSE, times |-> <<>>]

Probes ==
    {[rc |-> r, output |-> NoOutput] : r \in {"nonzero", "timeout", "raise"}}
    \cup {[rc |-> "zero", output |-> o] : o \in PingOutputs}

RECURSIVE sum(_)
sum(s) == IF s = <<>> THEN 0 ELSE Head(s) + sum(Tail(s))

\* Lines 121-151 for one output: <<what is added to total_time, what is added
\* to successful_pings>>.
parse_ping_output(output) ==
    IF output.fmt = "min/avg/max"
    THEN IF output.sep
         THEN IF output.num THEN <<output.times[1], 1>>
                            ELSE <<FALLBACK_MS, 1>>      \* ValueError, line 146
         ELSE <<0, 0>>                                   \* line 127 is false
    ELSE IF output.fmt = "Average"
    THEN IF output.sep /\ output.num THEN <<output.times[1], 1>>
                                     ELSE <<FALLBACK_MS, 1>>  \* IndexError or ValueError
    ELSE IF output.times # <<>>
         THEN <<sum(output.times) \div Len(output.times), 1>>
         ELSE <<0, 0>>                                   \* line 140 is false

\* Mutation: a target whose ping failed is counted as a sample of 0 ms.
RECURSIVE measure_from_counting_failures(_, _, _, _)
measure_from_counting_failures(probes, i, total_time, successful_pings) ==
    IF i > Len(PING_HOSTS)
    THEN [total_time |-> total_time, successful_pings |-> successful_pings,
          raised |-> FALSE]
    ELSE CASE probes[i].rc = "raise" ->
                [total_time |-> total_time, successful_pings |-> successful_pings,
                 raised |-> TRUE]
           [] probes[i].rc = "zero" ->
                LET d == parse_ping_output(probes[i].output) IN
                measure_from_counting_failures(probes, i + 1, total_time + d[1],
                                               successful_pings + d[2])
           [] OTHER -> measure_from_counting_failures(probes, i + 1, total_time,
                                                      successful_pings + 1)

\* The loop of lines 107-154 from host i on, with the totals so far.
RECURSIVE measure_from(_, _, _, _)
measure_from(probes, i, total_time, successful_pings) ==
    IF i > Len(PING_HOSTS)
    THEN [total_time |-> total_time, successful_pings |-> successful_pings,
          raised |-> FALSE]
    ELSE CASE probes[i].rc = "raise" ->
                [total_time |-> total_time, successful_pings |-> successful_pings,
                 raised |-> TRUE]
           [] probes[i].rc = "zero" ->
                LET d == parse_ping_output(probes[i].output) IN
                measure_from(probes, i + 1, total_time + d[1], successful_pings + d[2])
           [] OTHER -> measure_from(probes, i + 1, total_time, successful_pings)

\* Mutation: the thresholds belong to the better tier.
classify_thresholds_inclusive(total_time, successful_pings) ==
    IF successful_pings = 0 THEN "offline"
    ELSE IF total_time <= 200 * successful_pings THEN "good"
    ELSE IF total_time <= 500 * successful_pings THEN "poor"
    ELSE "very_poor"

\* Lines 156-167.  avg_ping = total_time / successful_pings is compared with
\* the thresholds by cross-multiplication.
classify(total_time, successful_pings) ==
    IF successful_pings = 0 THEN "offline"
    ELSE IF total_time < 200 * successful_pings THEN "good"
    ELSE IF total_time < 500 * successful_pings THEN "poor"
    ELSE "very_poor"

\* The tier returned, or "raise" when an exception leaves the function.
measure_connection_quality(probes) ==
    LET m == measure_from(probes, 1, 0, 0) IN
    IF m.raised THEN "raise" ELSE classify(m.total_time, m.successful_pings)

-----------------------------------------------------------------------------
(* adjust_transmission_settings, lines 169-227 *)

NoArguments == [k \in {} |-> 0]      \* "arguments or {}", line 62

\* Mutation: the very_poor branch carries the dict of the offline branch.
settings_very_poor_as_offline(connection_quality) ==
    CASE connection_quality \in {"offline", "very_poor"} ->
            ("alt-speed-enabled" :> TRUE) @@ ("alt-speed-down" :> 10)
            @@ ("alt-speed-up" :> 1) @@ ("download-queue-size" :> 1)
            @@ ("peer-limit-global" :> 20) @@ ("peer-limit-per-torrent" :> 5)
      [] connection_quality = "poor" ->
            ("alt-speed-enabled" :> TRUE) @@ ("alt-speed-down" :> 50)
            @@ ("alt-speed-up" :> 5) @@ ("download-queue-size" :> 2)
            @@ ("peer-limit-global" :> 50) @@ ("peer-limit-per-torrent" :> 15)
      [] OTHER ->
            ("alt-speed-enabled" :> FALSE) @@ ("download-queue-size" :> 3)
            @@ ("peer-limit-global" :> 100) @@ ("peer-limit-per-torrent" :> 30)

\* The settings dict of each branch, lines 176-183, 188-195, 200-207, 212-217.
settings_for(connection_quality) ==
    CASE connection_quality = "offline" ->
            ("alt-speed-enabled" :> TRUE) @@ ("alt-speed-down" :> 10)
            @@ ("alt-speed-up" :> 1) @@ ("download-queue-size" :> 1)
            @@ ("peer-limit-global" :> 20) @@ ("peer-limit-per-torrent" :> 5)
      [] connection_quality = "very_poor" ->
            ("alt-speed-enabled" :> TRUE) @@ ("alt-speed-down" :> 20)
            @@ ("alt-speed-up" :> 2) @@ ("download-queue-size" :> 1)
            @@ ("peer-limit-global" :> 30) @@ ("peer-limit-per-torrent" :> 10)
      [] connection_quality = "poor" ->
            ("alt-speed-enabled" :> TRUE) @@ ("alt-speed-down" :> 50)
            @@ ("alt-speed-up" :> 5) @@ ("download-queue-size" :> 2)
            @@ ("peer-limit-global" :> 50) @@ ("peer-limit-per-torrent" :> 15)
      [] OTHER ->
            ("alt-speed-enabled" :> FALSE) @@ ("download-queue-size" :> 3)
            @@ ("peer-limit-global" :> 100) @@ ("peer-limit-per-torrent" :> 30)

\* Mutation: the very_poor branch stores the mode of the poor branch.
bandwidth_mode_very_poor_as_poor(connection_quality) ==
    CASE connection_quality = "offline" -> "minimal"
      [] connection_quality = "very_poor" -> "conservative"
      [] connection_quality = "poor" -> "conservative"
      [] OTHER -> "normal"

\* The bandwidth_mode each branch stores, lines 184, 196, 208, 218.
bandwidth_mode_for(connection_quality) ==
    CASE connection_quality = "offline" -> "minimal"
      [] connection_quality = "very_poor" -> "minimal"
      [] connection_quality = "poor" -> "conservative"
      [] OTHER -> "normal"

pause_all_torrents(env) == transmission_rpc_call("torrent-stop", NoArguments, env)

resume_all_torrents(env) == transmission_rpc_call("torrent-start", NoArguments, env)

\* Mutation: the good branch resumes without looking at the previous tier.
resume_on_every_good_cycle(state) == TRUE

\* Line 221: the test that guards resume_all_torrents.  It reads the dict, in
\* which main() has already stored this cycle's tier (line 266).
was_offline(state) == state["connection_quality"] = "offline"

\* Mutation: the offline branch pauses only when the pre-check had failed.
adjust_pauses_only_when_unreachable(connection_quality, state, env1, env2) ==
    LET before ==
            IF connection_quality = "offline" /\ ~state["is_online"]
            THEN <<pause_all_torrents(env1)>>
            ELSE <<>>
        settings == settings_for(connection_quality)
    IN  [calls |-> before \o
                   <<transmission_rpc_call("session-set", settings, env2)>>,
         state |-> [state EXCEPT
                        !["bandwidth_mode"] = bandwidth_mode_for(connection_quality)]]

\* Mutation: bandwidth_mode is stored only when session-set returned a result.
adjust_stores_mode_on_success(connection_quality, state, env1, env2) ==
    LET before ==
            IF connection_quality = "offline" THEN <<pause_all_torrents(env1)>>
            ELSE <<>>
        applied == transmission_rpc_call("session-set",
                                         settings_for(connection_quality), env2)
    IN  [calls |-> before \o <<applied>>,
         state |-> IF applied.ret = "json"
                   THEN [state EXCEPT !["bandwidth_mode"] =
                                          bandwidth_mode_for(connection_quality)]
                   ELSE state]

\* Mutation: the very_poor branch pauses the torrents too.
adjust_pauses_when_very_poor(connection_quality, state, env1, env2) ==
    LET before ==
            IF connection_quality \in {"offline", "very_poor"}
            THEN <<pause_all_torrents(env1)>>
            ELSE <<>>
    IN  [calls |-> before \o
                   <<transmission_rpc_call("session-set",
                                           settings_for(connection_quality), env2)>>,
         state |-> [state EXCEPT
                        !["bandwidth_mode"] = bandwidth_mode_for(connection_quality)]]

\* The RPC calls the function makes, in order.  env1 answers the pause or
\* resume call when one is made, env2 the session-set call.
adjust_transmission_settings(connection_quality, state, env1, env2) ==
    LET before ==
            IF connection_quality = "offline" THEN <<pause_all_torrents(env1)>>
            ELSE IF connection_quality \in {"very_poor", "poor"} THEN <<>>
            ELSE IF was_offline(state) THEN <<resume_all_torrents(env1)>>
            ELSE <<>>
        settings == settings_for(connection_quality)
    IN  [calls |-> before \o
                   (IF DOMAIN settings # {}
                    THEN <<transmission_rpc_call("session-set", settings, env2)>>
                    ELSE <<>>),
         state |-> [state EXCEPT
                        !["bandwidth_mode"] = bandwidth_mode_for(connection_quality)]]

-----------------------------------------------------------------------------
(* get_torrent_list, lines 239-247, and the counts of lines 276-278 *)

TorrentGetArguments ==
    "fields" :> <<"id", "name", "status", "downloadDir", "percentDone",
                  "rateDownload", "rateUpload">>

Torrents == [rateDownload : {0, 5}, rateUpload : {0, 5}]

TorrentLists == UNION {[1..n -> Torrents] : n \in 0..MaxTorrents}

\* The JSON a 200 answer to torrent-get carries: a torrent list under
\* arguments/torrents, a dict without those keys, or JSON of another shape
\* (on which line 245, 246, 276 or 277 raises TypeError or AttributeError).
Answers ==
    {[shape |-> "torrents", torrents |-> l] : l \in TorrentLists}
    \cup {[shape |-> sh, torrents |-> <<>>] : sh \in {"missing", "badshape"}}

get_torrent_list(env, answer) ==
    LET response == transmission_rpc_call("torrent-get", TorrentGetArguments, env) IN
    [call |-> response,
     raised |-> response.ret = "json" /\ answer.shape = "badshape",
     torrents |-> IF response.ret = "json" /\ answer.shape = "torrents"
                  THEN answer.torrents ELSE <<>>]

count_where(torrents, field) ==
    Cardinality({i \in DOMAIN torrents : torrents[i][field] > 0})

NoReport == [logged |-> FALSE, total |-> 0, downloading |-> 0, uploading |-> 0]

torrent_report(torrents) ==
    [logged |-> TRUE, total |-> Len(torrents),
     downloading |-> count_where(torrents, "rateDownload"),
     uploading |-> count_where(torrents, "rateUpload")]

-----------------------------------------------------------------------------
(* main, lines 249-295 *)

\* Mutation: the tier is not stored in the dict.
main_online_drops_quality(state, quality) ==
    [state EXCEPT !["is_online"] = TRUE,
                  !["last_online"] = 0,
                  !["reconnect_count"] = 0]

\* Lines 264-267.  last_online is kept as the number of cycles since
\* time.time() was stored, 0 meaning this cycle.
main_online(state, quality) ==
    [state EXCEPT !["is_online"] = TRUE,
                  !["last_online"] = 0,
                  !["connection_quality"] = quality,
                  !["reconnect_count"] = 0]

\* Lines 282-284.
main_offline(state) ==
    [state EXCEPT !["is_online"] = FALSE,
                  !["connection_quality"] = "offline",
                  !["reconnect_count"] = @ + 1]

\* Mutation: the exception leaves main().
exception_propagates == "terminated"

\* Lines 291-295: the except clause logs and falls through to the sleep.
ErrorBoundary == "sleep"

\* Mutation: the measurement runs whatever the pre-check returned.
after_check_always_measures(is_online) ==
    CASE is_online = "raise" -> ErrorBoundary
      [] OTHER -> "online"

\* Lines 259-261 and 280: where main() goes on the result of the pre-check.
after_check(is_online) ==
    CASE is_online = "raise" -> ErrorBoundary
      [] is_online = "True" -> "online"
      [] OTHER -> "offline"

\* Mutation: the torrent report is left out.
after_adjust_without_report(is_online) == "sleep"

\* Lines 272-275 and 289-295: what follows adjust_transmission_settings.
after_adjust(is_online) == IF is_online = "True" THEN "report" ELSE "sleep"

TypeOK ==
    /\ network_state \in [last_online : 0..MaxAge, is_online : BOOLEAN,
                          connection_quality : Tiers,
                          reconnect_count : 0..MaxReconnect,
                          bandwidth_mode : {"normal", "conservative", "minimal"}]
    /\ pc \in {"check", "online", "offline", "adjust", "report", "sleep", "terminated"}
    /\ prev_quality \in Tiers
    /\ cycle_quality \in Tiers \cup {"none"}
    /\ precheck \in {"none", "True", "False"}
    /\ measured \in BOOLEAN
    /\ caught \in BOOLEAN
    /\ Len(calls) <= 3
    /\ report.total \in 0..MaxTorrents
    /\ offline_run \in 0..MaxReconnect
    /\ measurement \in {<<>>} \cup [1..Len(PING_HOSTS) -> Probes]

\* last_online was written when the module was loaded (line 35), before the
\* first cycle.
Init ==
    /\ network_state = [last_online |-> 1, is_online |-> TRUE,
                        connection_quality |-> "good", reconnect_count |-> 0,
                        bandwidth_mode |-> "normal"]
    /\ pc = "check"
    /\ prev_quality = "good"
    /\ cycle_quality = "none"
    /\ precheck = "none"
    /\ measured = FALSE
    /\ caught = FALSE
    /\ calls = <<>>
    /\ report = NoReport
    /\ offline_run = 0
    /\ measurement = <<>>

\* Line 259, and line 261 on its result.
CheckConnectivity ==
    /\ pc = "check"
    /\ \E pre \in [1..Len(PING_HOSTS) -> PingOutcomes] :
         LET is_online == check_network_connectivity(pre) IN
         /\ is_online = "False" => offline_run < MaxReconnect
         /\ precheck' = IF is_online = "raise" THEN "none" ELSE is_online
         /\ caught' = (is_online = "raise")
         /\ pc' = after_check(is_online)
    /\ UNCHANGED <<network_state, prev_quality, cycle_quality, measured,
                   calls, report, offline_run, measurement>>

\* Lines 263-269, the measurement pings answering as probes says.
MainOnlineStep(probes) ==
    /\ pc = "online"
    /\ measured' = TRUE
    /\ LET quality == measure_connection_quality(probes) IN
         IF quality = "raise"
         THEN /\ caught' = TRUE
              /\ pc' = ErrorBoundary
              /\ UNCHANGED <<network_state, cycle_quality, offline_run>>
         ELSE /\ quality = "offline" => offline_run < MaxReconnect
              /\ cycle_quality' = quality
              /\ network_state' = main_online(network_state, quality)
              /\ offline_run' = IF quality = "offline" THEN offline_run + 1 ELSE 0
              /\ pc' = "adjust"
              /\ UNCHANGED caught
    /\ UNCHANGED <<prev_quality, precheck, calls, report, measurement>>

MainOnline == \E probes \in [1..Len(PING_HOSTS) -> Probes] : MainOnlineStep(probes)

\* Lines 282-286.
MainOffline ==
    /\ pc = "offline"
    /\ cycle_quality' = "offline"
    /\ network_state' = main_offline(network_state)
    /\ offline_run' = offline_run + 1
    /\ pc' = "adjust"
    /\ UNCHANGED <<prev_quality, precheck, measured, caught, calls, report,
                   measurement>>

\* Line 272 or line 289: the whole of adjust_transmission_settings.
Adjust ==
    /\ pc = "adjust"
    /\ \E env1 \in RpcEnv, env2 \in RpcEnv :
         LET a == adjust_transmission_settings(cycle_quality, network_state,
                                               env1, env2) IN
         /\ calls' = calls \o a.calls
         /\ network_state' = a.state
    /\ pc' = after_adjust(precheck)
    /\ UNCHANGED <<prev_quality, cycle_quality, precheck, measured, caught,
                   report, offline_run, measurement>>

\* Lines 275-278.
ReportTorrents ==
    /\ pc = "report"
    /\ \E env \in RpcEnv, answer \in Answers :
         LET g == get_torrent_list(env, answer) IN
         /\ calls' = Append(calls, g.call)
         /\ caught' = g.raised
         /\ report' = IF g.raised THEN report ELSE torrent_report(g.torrents)
         /\ pc' = IF g.raised THEN ErrorBoundary ELSE "sleep"
    /\ UNCHANGED <<network_state, prev_quality, cycle_quality, precheck,
                   measured, offline_run, measurement>>

\* Line 295, then the top of the loop: a new cycle begins.
Sleep ==
    /\ pc = "sleep"
    /\ pc' = "check"
    /\ network_state' =
           [network_state EXCEPT
               !["last_online"] = IF @ < MaxAge THEN @ + 1 ELSE @]
    /\ prev_quality' = network_state["connection_quality"]
    /\ cycle_quality' = "none"
    /\ precheck' = "none"
    /\ measured' = FALSE
    /\ caught' = FALSE
    /\ calls' = <<>>
    /\ report' = NoReport
    /\ UNCHANGED <<offline_run, measurement>>

Next ==
    \/ CheckConnectivity
    \/ MainOnline
    \/ MainOffline
    \/ Adjust
    \/ ReportTorrents
    \/ Sleep

Spec == Init /\ [][Next]_vars

\* The interpreter keeps running the single thread: every call of the loop
\* body carries a timeout (lines 45, 71, 93, 115) and the sleep is finite.
LiveSpec == Spec /\ WF_vars(Next)

\* One cycle from the point where the pre-check has succeeded (line 261),
\* for every answer the measurement pings can give.  The cycle starts either
\* from the state of lines 34-40 or after a cycle that found the link
\* unreachable.
MeasureInit ==
    /\ measurement \in [1..Len(PING_HOSTS) -> Probes]
    /\ \E was_down \in BOOLEAN :
         /\ network_state =
              IF was_down
              THEN [last_online |-> 1, is_online |-> FALSE,
                    connection_quality |-> "offline", reconnect_count |-> 1,
                    bandwidth_mode |-> "minimal"]
              ELSE [last_online |-> 1, is_online |-> TRUE,
                    connection_quality |-> "good", reconnect_count |-> 0,
                    bandwidth_mode |-> "normal"]
         /\ prev_quality = IF was_down THEN "offline" ELSE "good"
         /\ offline_run = IF was_down THEN 1 ELSE 0
    /\ pc = "online"
    /\ cycle_quality = "none"
    /\ precheck = "True"
    /\ measured = FALSE
    /\ caught = FALSE
    /\ calls = <<>>
    /\ report = NoReport

Measure == MainOnlineStep(measurement)

MeasureNext ==
    \/ Measure
    \/ Adjust

MeasureSpec == MeasureInit /\ [][MeasureNext]_vars

-----------------------------------------------------------------------------
(* Vocabulary of the properties *)

\* Number of calls of this cycle that carry the method.
Issued(method) == Cardinality({i \in DOMAIN calls : calls[i].method = method})

\* The first call with method m1 comes earlier than the first with m2.
IssuedBefore(m1, m2) ==
    \E i \in DOMAIN calls, j \in DOMAIN calls :
        /\ i < j
        /\ calls[i].method = m1
        /\ calls[j].method = m2

\* The directives of this cycle, torrent-get left out, as <<method, arguments>>.
IsDirective(c) == c.method # "torrent-get"

Directives ==
    LET d == SelectSeq(calls, IsDirective) IN
    [i \in DOMAIN d |-> <<d[i].method, d[i].arguments>>]

\* The cycle has finished and main() is at the sleep of line 295.
CycleEnded == pc = "sleep"

\* adjust_transmission_settings has returned in this cycle.
Adjusted == pc \in {"report", "sleep"} /\ cycle_quality # "none"

\* The policy table of the specification, section 4.3.
PolicyTable(tier) ==
    CASE tier = "good" ->
            ("alt-speed-enabled" :> FALSE) @@ ("download-queue-size" :> 3)
            @@ ("peer-limit-global" :> 100) @@ ("peer-limit-per-torrent" :> 30)
      [] tier = "poor" ->
            ("alt-speed-enabled" :> TRUE) @@ ("alt-speed-down" :> 50)
            @@ ("alt-speed-up" :> 5) @@ ("download-queue-size" :> 2)
            @@ ("peer-limit-global" :> 50) @@ ("peer-limit-per-torrent" :> 15)
      [] tier = "very_poor" ->
            ("alt-speed-enabled" :> TRUE) @@ ("alt-speed-down" :> 20)
            @@ ("alt-speed-up" :> 2) @@ ("download-queue-size" :> 1)
            @@ ("peer-limit-global" :> 30) @@ ("peer-limit-per-torrent" :> 10)
      [] tier = "offline" ->
            ("alt-speed-enabled" :> TRUE) @@ ("alt-speed-down" :> 10)
            @@ ("alt-speed-up" :> 1) @@ ("download-queue-size" :> 1)
            @@ ("peer-limit-global" :> 20) @@ ("peer-limit-per-torrent" :> 5)

-----------------------------------------------------------------------------
(* Properties *)

\* C1: a cycle classified good that follows a cycle that ended offline issues
\* exactly one torrent-start and exactly one session-set, the torrent-start
\* first.  The code does not: line 266 has overwritten the previous tier when
\* line 221 reads it.
C1_OfflineToGoodResumesOnce ==
    (CycleEnded /\ prev_quality = "offline" /\ cycle_quality = "good") =>
        /\ Issued("torrent-start") = 1
        /\ Issued("session-set") = 1
        /\ IssuedBefore("torrent-start", "session-set")

\* C2: a cycle classified good, poor or very_poor that follows a cycle that
\* ended offline issues a torrent-start.  The code never issues one.
C2_RecoveryResumes ==
    (CycleEnded /\ prev_quality = "offline"
                /\ cycle_quality \in {"good", "poor", "very_poor"}) =>
        Issued("torrent-start") >= 1

\* C3: in every cycle whose tier is offline, whatever the previous tier and
\* whichever way the tier was reached, the directives issued are exactly one
\* torrent-stop followed by exactly one session-set carrying the offline
\* policy.
C3_OfflinePausesThenApplies ==
    (Adjusted /\ cycle_quality = "offline") =>
        Directives = << <<"torrent-stop", NoArguments>>,
                        <<"session-set", PolicyTable("offline")>> >>

\* An offline tier produced by the full measurement after a successful
\* pre-check, following a cycle that was already offline.
C3_Witness ==
    /\ CycleEnded
    /\ cycle_quality = "offline"
    /\ precheck = "True"
    /\ prev_quality = "offline"
    /\ Len(Directives) = 2

\* C4: after every classified cycle reconnect_count is the length of the run
\* of consecutive offline cycles that ends with it.  The code resets the
\* counter in a cycle whose pre-check succeeds and whose measurement yields
\* offline.
C4_ReconnectCountIsOfflineRun ==
    (CycleEnded /\ cycle_quality # "none") =>
        network_state["reconnect_count"] = offline_run

\* C5: at the end of every cycle and at the start of the next (the initial
\* state included) bandwidth_mode is the fixed function of connection_quality:
\* offline and very_poor give minimal, poor conservative, good normal.
C5_BandwidthModeFollowsQuality ==
    pc \in {"check", "sleep"} =>
        network_state["bandwidth_mode"] =
            CASE network_state["connection_quality"] \in {"offline", "very_poor"}
                     -> "minimal"
              [] network_state["connection_quality"] = "poor" -> "conservative"
              [] network_state["connection_quality"] = "good" -> "normal"

\* A cycle that left the good tier, in which a Gateway call failed and the
\* except clause ran.
C5_Witness ==
    /\ CycleEnded
    /\ caught
    /\ prev_quality = "good"
    /\ cycle_quality = "very_poor"
    /\ \E i \in DOMAIN calls : calls[i].ret = "None"

\* C6: at the end of every cycle that classified the link,
\* network_state["connection_quality"] is the tier that cycle produced.
C6_QualityIsThisCyclesTier ==
    (CycleEnded /\ cycle_quality # "none") =>
        network_state["connection_quality"] = cycle_quality

\* A cycle whose tier differs from the one before.
C6_Witness ==
    /\ CycleEnded
    /\ prev_quality = "offline"
    /\ cycle_quality = "poor"
    /\ network_state["connection_quality"] = "poor"

\* C7: no failure inside a cycle ends the loop: when the except clause has
\* run the sleep follows, and a next cycle always begins.
C7_LoopNeverStops ==
    /\ [](caught => <>(pc = "sleep"))
    /\ []<>(pc = "check")

\* The except clause ran in this cycle, after a failed Gateway call.
C7_Witness ==
    /\ caught
    /\ pc = "sleep"
    /\ \E i \in DOMAIN calls : calls[i].status \in {"none", "409", "other", "exception"}

\* C8 as stated: every classified cycle issues a session-set carrying the
\* policy of its tier and queries the transfer list.  The offline branch of
\* main (lines 280-289) makes no torrent-get call.
C8_EveryCycleAppliesAndReports ==
    (CycleEnded /\ cycle_quality # "none") =>
        /\ \E i \in DOMAIN calls :
              /\ calls[i].method = "session-set"
              /\ calls[i].arguments = PolicyTable(cycle_quality)
        /\ Issued("torrent-get") >= 1

\* C8 amended: every classified cycle issues exactly one session-set, carrying
\* the policy of its tier; the transfer list is queried once in the cycles
\* whose pre-check succeeded and not at all in the others, and counts are
\* logged only after such a query.
C8_AppliesAlwaysReportsWhenReachable ==
    (CycleEnded /\ cycle_quality # "none") =>
        /\ Issued("session-set") = 1
        /\ \E i \in DOMAIN calls :
              /\ calls[i].method = "session-set"
              /\ calls[i].arguments = PolicyTable(cycle_quality)
        /\ Issued("torrent-get") = IF precheck = "True" THEN 1 ELSE 0
        /\ report.logged => Issued("torrent-get") = 1

\* An unchanged tier, settings applied again and counts of a non-empty
\* transfer list logged.
C8_Witness ==
    /\ CycleEnded
    /\ prev_quality = "poor"
    /\ cycle_quality = "poor"
    /\ Issued("session-set") = 1
    /\ report.logged
    /\ report.total >= 1

\* C9: a cycle classified good that follows a good cycle issues exactly one
\* session-set, with the good policy, and neither torrent-stop nor
\* torrent-start.
C9_GoodToGoodOnlyApplies ==
    (Adjusted /\ prev_quality = "good" /\ cycle_quality = "good") =>
        Directives = << <<"session-set", PolicyTable("good")>> >>

C9_Witness ==
    /\ CycleEnded
    /\ prev_quality = "good"
    /\ cycle_quality = "good"
    /\ network_state["last_online"] = 0
    /\ Len(Directives) = 1

\* C10: a Gateway call whose request is answered with a session challenge
\* (409) is retried once after a fresh negotiation, and its effect reaches the
\* client exactly once.  The code sends the request once and returns None on
\* the 409.
C10_ChallengeIsRetriedOnce ==
    \A i \in DOMAIN calls :
        calls[i].status = "409" =>
            /\ calls[i].posts = 2
            /\ calls[i].effects = 1

-----------------------------------------------------------------------------
(* Properties of the measurement, stated over the fixed pings of MeasureSpec *)

Hosts == DOMAIN measurement

\* The hosts whose ping exited 0 and added a sample, and what they added.
Counted == {i \in Hosts : measurement[i].rc = "zero"
                          /\ parse_ping_output(measurement[i].output)[2] = 1}

RECURSIVE TotalOver(_)
TotalOver(hosts) ==
    IF hosts = {} THEN 0
    ELSE LET i == CHOOSE h \in hosts : TRUE IN
         parse_ping_output(measurement[i].output)[1] + TotalOver(hosts \ {i})

\* The measurement ran to its end and the cycle has its tier.
Classified == measurement # <<>> /\ cycle_quality # "none"

\* C11: the tier is offline exactly when no target produced a usable sample;
\* otherwise, m being the mean of the usable samples, it is good when
\* m < 200, poor when 200 <= m < 500 and very_poor when m >= 500.
C11_TierByMeanLatency ==
    Classified =>
        LET n == Cardinality(Counted)
            t == TotalOver(Counted)
        IN  /\ (cycle_quality = "offline") <=> (n = 0)
            /\ n > 0 =>
                 /\ (cycle_quality = "good") <=> (t < 200 * n)
                 /\ (cycle_quality = "poor") <=> (200 * n <= t /\ t < 500 * n)
                 /\ (cycle_quality = "very_poor") <=> (t >= 500 * n)

\* Two samples whose mean is exactly 200 ms.
C11_Witness ==
    /\ Classified
    /\ Cardinality(Counted) = 2
    /\ TotalOver(Counted) = 400
    /\ cycle_quality = "poor"

\* No latency value can be extracted from the output.
Unparsable(output) ==
    CASE output.fmt = "none" -> output.times = <<>>
      [] OTHER -> ~(output.sep /\ output.num)

\* The sample the specification assigns to a target whose ping exited 0.
SpecSample(i) ==
    IF Unparsable(measurement[i].output) THEN 1000
    ELSE sum(measurement[i].output.times) \div Len(measurement[i].output.times)

RECURSIVE SpecTotal(_)
SpecTotal(hosts) ==
    IF hosts = {} THEN 0
    ELSE LET i == CHOOSE h \in hosts : TRUE IN SpecSample(i) + SpecTotal(hosts \ {i})

\* C12: when every ping exits 0, each target whose output yields no latency
\* value counts as one sample of 1000 ms; when both targets are of this kind
\* the tier is very_poor and the very_poor policy is applied.  The code drops
\* the target when line 127 or line 140 is false.
C12_UnparsableCountsAsFallback ==
    (Classified /\ \A i \in Hosts : measurement[i].rc = "zero") =>
        LET n == Cardinality(Hosts)
            t == SpecTotal(Hosts)
        IN  /\ cycle_quality = IF t < 200 * n THEN "good"
                               ELSE IF t < 500 * n THEN "poor" ELSE "very_poor"
            /\ (pc = "report" /\ \A i \in Hosts : Unparsable(measurement[i].output)) =>
                 /\ cycle_quality = "very_poor"
                 /\ \E k \in DOMAIN calls :
                       /\ calls[k].method = "session-set"
                       /\ calls[k].arguments = PolicyTable("very_poor")

\* C13: every session-set carries the record of the cycle's tier, the same
\* record whatever the previous tier was, and every tier has one; the good
\* record holds no rate caps.
C13_PolicyTableTotalAndFixed ==
    /\ Adjusted => (cycle_quality \in Tiers /\ Issued("session-set") = 1)
    /\ \A i \in DOMAIN calls :
          calls[i].method = "session-set" =>
              /\ calls[i].arguments = PolicyTable(cycle_quality)
              /\ cycle_quality = "good" =>
                    DOMAIN calls[i].arguments =
                        {"alt-speed-enabled", "download-queue-size",
                         "peer-limit-global", "peer-limit-per-torrent"}

\* The very_poor record applied on recovery from offline.
C13_Witness ==
    /\ CycleEnded
    /\ prev_quality = "offline"
    /\ cycle_quality = "very_poor"
    /\ \E i \in DOMAIN calls :
          /\ calls[i].method = "session-set"
          /\ calls[i].arguments["alt-speed-down"] = 20

\* C14: in a cycle whose pre-check finds no reachable target the full
\* measurement is not run and the tier is offline; the measurement runs only
\* after a pre-check that found a reachable target.
C14_PrecheckGatesMeasurement ==
    /\ precheck = "False" => (~measured /\ cycle_quality \in {"none", "offline"})
    /\ (CycleEnded /\ precheck = "False") => cycle_quality = "offline"
    /\ measured => precheck = "True"

C14_Witness ==
    /\ CycleEnded
    /\ precheck = "False"
    /\ ~measured
    /\ cycle_quality = "offline"
    /\ Issued("session-set") = 1

\* Targets whose ping exited non-zero or timed out.
Failed == {i \in Hosts : measurement[i].rc \in {"nonzero", "timeout"}}

Reversed == [i \in Hosts |-> measurement[Len(measurement) + 1 - i]]

TierOfSamples(hosts) ==
    LET n == Cardinality(hosts)
        t == TotalOver(hosts)
    IN  IF n = 0 THEN "offline"
        ELSE IF t < 200 * n THEN "good"
        ELSE IF t < 500 * n THEN "poor"
        ELSE "very_poor"

\* C15: when the ping of a target exits non-zero or times out, the other
\* targets are still probed and the function returns; the tier is the one of
\* the samples of the other targets alone, and it is the same when the target
\* list is taken in the opposite order.
C15_FailedTargetIsExcluded ==
    (measurement # <<>> /\ measured /\ Failed # {}
        /\ \A i \in Hosts : measurement[i].rc # "raise") =>
        /\ cycle_quality # "none"
        /\ cycle_quality = TierOfSamples(Counted \ Failed)
        /\ cycle_quality = measure_connection_quality(Reversed)

\* The first target times out and the second answers in 201 ms: poor, where a
\* sample of 0 ms for the first would give good.
C15_Witness ==
    /\ measurement # <<>>
    /\ measured
    /\ measurement[1].rc = "timeout"
    /\ Counted = {2}
    /\ TotalOver(Counted) = 201
    /\ cycle_quality = "poor"

\* C16: a call whose session negotiation fails sends no request and returns
\* None; no exception reaches main(), and the later calls of the cycle are
\* still made.
C16_FailedNegotiationAbandonsCall ==
    /\ \A i \in DOMAIN calls :
          calls[i].status = "none" =>
              (calls[i].posts = 0 /\ calls[i].effects = 0 /\ calls[i].ret = "None")
    /\ (Adjusted /\ \E i \in DOMAIN calls : calls[i].status = "none") =>
          Issued("session-set") = 1
    /\ (CycleEnded /\ cycle_quality # "none" /\ precheck = "True") =>
          Issued("torrent-get") = 1
    /\ (caught /\ calls # <<>>) => calls[Len(calls)].ret = "json"

\* The negotiation of the torrent-stop call failed; session-set and
\* torrent-get were made afterwards.
C16_Witness ==
    /\ CycleEnded
    /\ ~caught
    /\ Len(calls) = 3
    /\ calls[1].method = "torrent-stop"
    /\ calls[1].status = "none"
    /\ calls[2].status = "200"
    /\ calls[3].method = "torrent-get"

\* C17: at the end of every classified cycle is_online is true exactly when
\* connection_quality is not offline, and last_online is not written in a
\* cycle whose tier is offline.  The code writes both on the result of the
\* pre-check (lines 264-265), before the measurement's tier is looked at.
C17_OnlineFlagFollowsTier ==
    (CycleEnded /\ cycle_quality # "none") =>
        /\ network_state["is_online"] <=>
              (network_state["connection_quality"] # "offline")
        /\ cycle_quality = "offline" => network_state["last_online"] # 0

\* The bandwidth mode the specification assigns to a tier, section 4.3.
ModeOfTier(tier) ==
    CASE tier \in {"offline", "very_poor"} -> "minimal"
      [] tier = "poor" -> "conservative"
      [] OTHER -> "normal"

\* A step that calls the Gateway stores the mode of the cycle's tier in
\* bandwidth_mode and leaves the other fields as they are.
GatewayStepKeepsState ==
    pc \in {"adjust", "report"} =>
        network_state' =
            [network_state EXCEPT !["bandwidth_mode"] = ModeOfTier(cycle_quality)]

\* C18: the steps that call the Gateway change network_state in one way only,
\* whatever the calls return: bandwidth_mode becomes the mode of the cycle's
\* tier and the other fields keep their values.
C18_GatewayOutcomeLeavesStateAlone == [][GatewayStepKeepsState]_vars

\* A cycle in which every Gateway call returned None.
C18_Witness ==
    /\ CycleEnded
    /\ prev_quality = "good"
    /\ cycle_quality = "offline"
    /\ Len(calls) = 3
    /\ \A i \in DOMAIN calls : calls[i].ret = "None"
    /\ network_state["bandwidth_mode"] = "minimal"
    /\ network_state["reconnect_count"] = 0

\* C19: a cycle issues at most one torrent-stop and at most one
\* torrent-start, never both; a torrent-stop only when its tier is offline, a
\* torrent-start only when its tier is not offline.
C19_PauseAndResumeExclusive ==
    /\ Issued("torrent-stop") <= 1
    /\ Issued("torrent-start") <= 1
    /\ ~(Issued("torrent-stop") >= 1 /\ Issued("torrent-start") >= 1)
    /\ Issued("torrent-stop") >= 1 => cycle_quality = "offline"
    /\ Issued("torrent-start") >= 1 => cycle_quality \in {"good", "poor", "very_poor"}

C19_Witness ==
    /\ CycleEnded
    /\ prev_quality = "very_poor"
    /\ cycle_quality = "offline"
    /\ Issued("torrent-stop") = 1
    /\ Issued("torrent-start") = 0

====
